---- MODULE Spec2Model ----
(***************************************************************************)
(* Model of intake/gui/source_select.py: BaseSelector, CatSelector and     *)
(* SourceSelector on top of a multi-select list widget.                    *)
(*                                                                         *)
(* A label is a sequence of tokens.  The tree-drawing strings of           *)
(* expand_nested are single tokens: right is the corner and two dashes,    *)
(* down is the vertical bar.  An option is a record [label, value]; the    *)
(* widget's options are a sequence of options with pairwise distinct       *)
(* labels (an insertion-ordered dict).  Objects (catalogs, sources) are    *)
(* strings; their attributes are read through Name, Entries and the        *)
(* variable cat.                                                           *)
(***************************************************************************)
EXTENDS Integers, Sequences, FiniteSets, TLC

VARIABLES
    kind,          \* "cat" (CatSelector) or "source" (SourceSelector)
    world,         \* which catalogs exist: "tree", "chain" or "free"
    cat,           \* the .cat attribute (parent catalog) of every object
    has_callback,  \* done_callback was supplied
    watching,      \* setup() has installed the watchers
    options,       \* widget.options
    value,         \* widget.value
    disabled,      \* remove_button.disabled
    called,        \* arguments of the done_callback calls of the last operation
    err,           \* exception raised by the last operation ("none" if none)
    iters,         \* loop iterations of the last operation's collapse_nested
    last           \* the last operation that changed the options or the value

vars == <<kind, world, cat, has_callback, watching, options, value, disabled,
          called, err, iters, last>>

----------------------------------------------------------------------------
(* Bounds of the model.                                                    *)

MaxItems == 2      \* longest list passed to options, add, remove, cats
MaxSel == 2        \* longest selection made in the widget

(* Program constant: default of collapse_nested's max_nestedness.          *)
MaxNestedness == 10

----------------------------------------------------------------------------
(* Tokens.                                                                 *)

right == "L--"
down == "|"
space == " "
None == "None"
NoKey == <<"NULL">>

Digit == <<"0", "1", "2", "3", "4", "5", "6", "7", "8", "9">>

RECURSIVE Str(_)
(* str(n) of a non-negative integer, as f'{count}' formats it              *)
Str(n) == IF n < 10 THEN <<Digit[n + 1]>> ELSE Str(n \div 10) \o <<Digit[(n % 10) + 1]>>

----------------------------------------------------------------------------
(* The catalogs and sources that exist.                                    *)

TreeCats == {"c1", "c2", "k1", "k2", "g1"}
TreeTop == {"c1", "c2"}
Sources == {"s1", "s2", "s3"}
ChainCats == {"d0", "d1", "d2", "d3", "d4", "d5", "d6", "d7", "d8", "d9", "d10", "d11"}
FreeCats == {"x", "y"}
Objects == TreeCats \cup Sources \cup ChainCats \cup FreeCats

Name(o) ==
    CASE o = "c1" -> <<"a">>
      [] o = "c2" -> <<"b">>
      [] o = "k1" -> <<"k">>
      [] o = "k2" -> <<"m">>
      [] o = "g1" -> <<"g">>
      [] o \in {"s1", "s2"} -> <<"s">>
      [] o = "s3" -> <<"t">>
      [] o = "d0" -> <<"d", "0">>
      [] o = "d1" -> <<"d", "1">>
      [] o = "d2" -> <<"d", "2">>
      [] o = "d3" -> <<"d", "3">>
      [] o = "d4" -> <<"d", "4">>
      [] o = "d5" -> <<"d", "5">>
      [] o = "d6" -> <<"d", "6">>
      [] o = "d7" -> <<"d", "7">>
      [] o = "d8" -> <<"d", "8">>
      [] o = "d9" -> <<"d", "9">>
      [] o = "d10" -> <<"d", "1", "0">>
      [] o = "d11" -> <<"d", "1", "1">>
      [] OTHER -> <<o>>

E(o, c) == [obj |-> o, container |-> c]

(* parent._entries.values(), in entry order                                *)
Entries(o) ==
    CASE o = "c1" -> <<E("k1", "catalog"), E("s1", "dataframe"), E("k2", "catalog"), E("s3", "dataframe")>>
      [] o = "c2" -> <<E("s2", "dataframe")>>
      [] o = "k1" -> <<E("g1", "catalog")>>
      [] o = "d0" -> <<E("d1", "catalog")>>
      [] o = "d1" -> <<E("d2", "catalog")>>
      [] o = "d2" -> <<E("d3", "catalog")>>
      [] o = "d3" -> <<E("d4", "catalog")>>
      [] o = "d4" -> <<E("d5", "catalog")>>
      [] o = "d5" -> <<E("d6", "catalog")>>
      [] o = "d6" -> <<E("d7", "catalog")>>
      [] o = "d7" -> <<E("d8", "catalog")>>
      [] o = "d8" -> <<E("d9", "catalog")>>
      [] o = "d9" -> <<E("d10", "catalog")>>
      [] o = "d10" -> <<E("d11", "catalog")>>
      [] OTHER -> << >>

(* The .cat attribute that follows from the entries: the catalog an        *)
(* object was opened from, None for a top-level catalog.                   *)
ParentOf(o) ==
    IF \E p \in Objects : \E i \in 1..Len(Entries(p)) : Entries(p)[i].obj = o
    THEN CHOOSE p \in Objects : \E i \in 1..Len(Entries(p)) : Entries(p)[i].obj = o
    ELSE None

----------------------------------------------------------------------------
(* Lists and insertion-ordered dicts.                                      *)

InSeq(x, s) == \E i \in 1..Len(s) : s[i] = x

Range(s) == {s[i] : i \in 1..Len(s)}

Opt(l, v) == [label |-> l, value |-> v]

Labels(opts) == [i \in 1..Len(opts) |-> opts[i].label]

Values(opts) == [i \in 1..Len(opts) |-> opts[i].value]

IndexOfLabel(opts, l) == CHOOSE i \in 1..Len(opts) : opts[i].label = l

(* d[k] = v on an insertion-ordered dict: an existing key keeps its place  *)
DictSet(d, k, v) ==
    IF InSeq(k, Labels(d))
    THEN [d EXCEPT ![IndexOfLabel(d, k)] = Opt(k, v)]
    ELSE Append(d, Opt(k, v))

RECURSIVE DictUpdate(_, _)
(* d.update(pairs); with d empty it is dict(pairs) / OrderedDict(pairs)    *)
DictUpdate(d, pairs) ==
    IF pairs = << >> THEN d
    ELSE DictUpdate(DictSet(d, Head(pairs).label, Head(pairs).value), Tail(pairs))

DictPop(d, k) == SelectSeq(d, LAMBDA o : o.label # k)

InsertAt(s, p, x) == SubSeq(s, 1, p - 1) \o <<x>> \o SubSeq(s, p, Len(s))

----------------------------------------------------------------------------
(* Module-level and BaseSelector helpers.                                  *)

(* coerce_to_list without preprocess: an instance becomes a one-item list  *)
CoerceToList(isList, items) == IF isList THEN items ELSE <<items>>

(* CatSelector.preprocess opens a catalog given as a path; catalogs are    *)
(* given as objects here, which it returns as they are.                    *)
Preprocess(c) == c

(* _create_options in which the first item of a name wins                  *)
CreateOptionsKeepFirst(isList, items) ==
    LET l == CoerceToList(isList, items)
        firsts == SelectSeq([i \in 1..Len(l) |-> [at |-> i, obj |-> Preprocess(l[i])]],
                            LAMBDA e : \A j \in 1..(e.at - 1) : Name(Preprocess(l[j])) # Name(e.obj))
    IN  [i \in 1..Len(firsts) |-> Opt(Name(firsts[i].obj), firsts[i].obj)]

(* BaseSelector._create_options: OrderedDict of (x.name, x)                *)
CreateOptions(isList, items) ==
    LET l == CoerceToList(isList, items)
    IN  DictUpdate(<< >>, [i \in 1..Len(l) |-> Opt(Name(Preprocess(l[i])), Preprocess(l[i]))])

(* list(options.values())[:1]                                              *)
FirstValue(opts) == IF Len(opts) = 0 THEN << >> ELSE <<Values(opts)[1]>>

RECURSIVE FreeCount(_, _, _)
(* the while loop of add: the first count with k_count not in labels       *)
FreeCount(k, labels, count) ==
    IF InSeq(k \o <<"_">> \o Str(count), labels)
    THEN FreeCount(k, labels, count + 1)
    ELSE count

RECURSIVE AddLoop(_, _, _, _, _)
(* The for loop of add over options.items(), an OrderedDict iterator:      *)
(* cur is the key the iterator yields next (NoKey at the end); a step      *)
(* taken after the dict was mutated raises RuntimeError.                   *)
AddLoop(opts, cur, mutated, labels, items) ==
    IF cur = NoKey THEN [options |-> opts, err |-> "none"]
    ELSE IF mutated THEN [options |-> opts, err |-> "RuntimeError"]
    ELSE LET idx == IndexOfLabel(opts, cur)
             v == opts[idx].value
             nxt == IF idx = Len(opts) THEN NoKey ELSE opts[idx + 1].label
         IN  IF InSeq(cur, labels) /\ ~InSeq(v, items)
             THEN AddLoop(DictSet(DictPop(opts, cur),
                                  cur \o <<"_">> \o Str(FreeCount(cur, labels, 0)), v),
                          nxt, TRUE, labels, items)
             ELSE AddLoop(opts, nxt, FALSE, labels, items)

(* remove that compares the labels with the items' names                   *)
RemoveItemsByName(opts, items) ==
    SelectSeq(opts, LAMBDA o : \A i \in 1..Len(items) : o.label # Name(items[i]))

(* BaseSelector.remove: the options whose value is not in items            *)
RemoveItems(opts, items) == SelectSeq(opts, LAMBDA o : ~InSeq(o.value, items))

----------------------------------------------------------------------------
(* CatSelector.expand_nested                                               *)

(* get_children: e() for the entries whose container is 'catalog'         *)
GetChildren(parent) ==
    LET es == SelectSeq(Entries(parent), LAMBDA e : e.container = "catalog")
    IN  [i \in 1..Len(es) |-> es[i].obj]

(* name.split(right)[0]: the tokens before the first right                 *)
SplitHead(name) ==
    LET p == CHOOSE i \in 1..Len(name) : name[i] = right /\ \A j \in 1..(i - 1) : name[j] # right
    IN  SubSeq(name, 1, p - 1)

RECURSIVE InsertChildren(_, _, _, _, _)
(* the for loop: old.insert(index+i+1, (prefix child.name, child)), with   *)
(* index the 1-based place of the selected catalog and i counted from 1    *)
InsertChildren(old, index, prefix, children, i) ==
    IF i > Len(children) THEN old
    ELSE InsertChildren(InsertAt(old, index + i,
                                 Opt(prefix \o <<space>> \o Name(children[i]), children[i])),
                        index, prefix, children, i + 1)

ExpandNested(opts, new) ==
    IF Len(new) = 0 THEN [options |-> opts, err |-> "none"]
    ELSE LET got == new[1]
         IN  IF ~InSeq(got, Values(opts)) THEN [options |-> opts, err |-> "StopIteration"]
             ELSE LET index == CHOOSE i \in 1..Len(opts) :
                                   opts[i].value = got /\ \A j \in 1..(i - 1) : opts[j].value # got
                      name == opts[index].label
                      prefix == IF InSeq(right, name)
                                THEN SplitHead(name) \o <<down, space, right>>
                                ELSE <<right>>
                      old == InsertChildren(opts, index, prefix, GetChildren(got), 1)
                  IN  [options |-> DictUpdate(<< >>, old), err |-> "none"]

----------------------------------------------------------------------------
(* CatSelector.collapse_nested                                             *)

RECURSIVE CollapseLoopNoFailSafe(_, _, _, _, _, _, _)
(* the while loop without its nestedness test                              *)
CollapseLoopNoFailSafe(children, removed, nested, parents, parents_to_remove, nestedness, n) ==
    IF Cardinality(parents_to_remove) > 0
    THEN LET found == SelectSeq(nested, LAMBDA c : cat[c] \in parents_to_remove)
             children2 == children \o found
             removed2 == removed \cup parents_to_remove
         IN  CollapseLoopNoFailSafe(children2, removed2,
                          SelectSeq(nested, LAMBDA c : ~InSeq(c, children2)),
                          parents,
                          {c \in Range(children2) : c \in parents \ removed2},
                          nestedness - 1, n + 1)
    ELSE [children |-> children, iters |-> n]

RECURSIVE CollapseLoop(_, _, _, _, _, _, _)
(* the while loop; n counts its iterations                                 *)
CollapseLoop(children, removed, nested, parents, parents_to_remove, nestedness, n) ==
    IF Cardinality(parents_to_remove) > 0 /\ nestedness > 0
    THEN LET found == SelectSeq(nested, LAMBDA c : cat[c] \in parents_to_remove)
             children2 == children \o found
             removed2 == removed \cup parents_to_remove
         IN  CollapseLoop(children2, removed2,
                          SelectSeq(nested, LAMBDA c : ~InSeq(c, children2)),
                          parents,
                          {c \in Range(children2) : c \in parents \ removed2},
                          nestedness - 1, n + 1)
    ELSE [children |-> children, iters |-> n]

(* collapse_nested that collects the direct children only                  *)
CollapseNestedDirect(opts, cats, max_nestedness) ==
    LET old == Values(opts)
        nested == SelectSeq(old, LAMBDA c : cat[c] # None)
        parents == {cat[c] : c \in Range(nested)}
        r == CollapseLoop(<< >>, {}, nested, parents, Range(cats), 1, 0)
    IN  [options |-> RemoveItems(opts, r.children), children |-> r.children, iters |-> r.iters]

(* CatSelector.collapse_nested followed by its remove(children)            *)
CollapseNested(opts, cats, max_nestedness) ==
    LET old == Values(opts)
        nested == SelectSeq(old, LAMBDA c : cat[c] # None)
        parents == {cat[c] : c \in Range(nested)}
        r == CollapseLoop(<< >>, {}, nested, parents, Range(cats), max_nestedness, 0)
    IN  [options |-> RemoveItems(opts, r.children), children |-> r.children, iters |-> r.iters]

----------------------------------------------------------------------------
(* The value watchers.  W is the record [options, value, disabled, called, *)
(* err] an operation works on.                                             *)

(* Whether param calls the value watchers for an assignment: never for an  *)
(* empty list over an empty list, always for a changed value, and either   *)
(* way (fire) for an equal non-empty list.                                 *)
Fires(old, new, fire) ==
    IF old = << >> /\ new = << >> THEN FALSE
    ELSE IF old # new THEN TRUE
    ELSE fire

(* callback that tells done_callback of non-empty selections only          *)
CallbackNonEmptyOnly(w, new) ==
    [w EXCEPT !.disabled = IF kind = "cat" THEN (new = << >>) ELSE @,
              !.called = IF has_callback /\ new # << >> THEN Append(@, new) ELSE @]

(* CatSelector.callback / SourceSelector.callback                          *)
Callback(w, new) ==
    [w EXCEPT !.disabled = IF kind = "cat" THEN (new = << >>) ELSE @,
              !.called = IF has_callback THEN Append(@, new) ELSE @]

(* the watchers of setup, in the order they were installed                 *)
Watchers(w, new) ==
    IF kind = "cat"
    THEN LET e == ExpandNested(w.options, new)
         IN  IF e.err # "none"
             THEN [w EXCEPT !.err = e.err]
             ELSE Callback([w EXCEPT !.options = e.options], new)
    ELSE Callback(w, new)

(* self.widget.value = new                                                 *)
AssignValue(w, new, fire) ==
    LET w2 == [w EXCEPT !.value = new]
    IN  IF watching /\ Fires(w.value, new, fire) THEN Watchers(w2, new) ELSE w2

(* self.widget.set_param(options=..., value=...): both are set, then the   *)
(* watchers run                                                            *)
SetParam(w, opts, new, fire) ==
    LET w2 == [w EXCEPT !.options = opts, !.value = new]
    IN  IF watching /\ Fires(w.value, new, fire) THEN Watchers(w2, new) ELSE w2

(* BaseSelector.options setter                                             *)
SetOptions(w, isList, new, fire) ==
    LET opts == CreateOptions(isList, new)
    IN  IF w.value # << >>
        THEN SetParam(w, opts, FirstValue(opts), fire)
        ELSE AssignValue([w EXCEPT !.options = opts], FirstValue(opts), fire)

(* BaseSelector.add                                                        *)
AddItems(w, isList, items, fire) ==
    LET new == CreateOptions(isList, items)
        r == AddLoop(new, IF new = << >> THEN NoKey ELSE new[1].label, FALSE,
                     Labels(w.options), Values(w.options))
    IN  IF r.err # "none"
        THEN [w EXCEPT !.err = r.err]
        ELSE AssignValue([w EXCEPT !.options = DictUpdate(@, r.options)],
                         FirstValue(r.options), fire)

(* BaseSelector.selected setter: a name is looked up in the options        *)
SetSelectedTo(w, isStr, isList, new, fire) ==
    LET l == CoerceToList(isList, new)
    IN  IF isStr /\ \E i \in 1..Len(l) : ~InSeq(l[i], Labels(w.options))
        THEN [w EXCEPT !.err = "KeyError"]
        ELSE AssignValue(w, [i \in 1..Len(l) |->
                                 IF isStr THEN w.options[IndexOfLabel(w.options, l[i])].value
                                 ELSE l[i]],
                         fire)

RECURSIVE CatSources(_)
(* SourceSelector.cats setter: the entries that are not catalogs           *)
CatSources(cats) ==
    IF cats = << >> THEN << >>
    ELSE LET es == SelectSeq(Entries(Head(cats)), LAMBDA e : e.container # "catalog")
         IN  [i \in 1..Len(es) |-> es[i].obj] \o CatSources(Tail(cats))

----------------------------------------------------------------------------
(* Inputs.                                                                 *)

Lists(S, n) == UNION {[1..k -> S] : k \in 0..n}

(* the items a caller passes to options and add                            *)
ItemPool ==
    IF kind = "source" THEN {"s1", "s2", "s3"}
    ELSE CASE world = "tree" -> TreeTop
           [] world = "chain" -> {"d0"}
           [] OTHER -> FreeCats

(* the items of seq at the places I, in the order of seq                   *)
Pick(seq, I) ==
    LET F[i \in 0..Len(seq)] ==
            IF i = 0 THEN << >>
            ELSE IF i \in I THEN Append(F[i - 1], seq[i]) ELSE F[i - 1]
    IN  F[Len(seq)]

(* the lists of at most n items of seq, in the order of seq                *)
SubLists(seq, n) == {Pick(seq, I) : I \in {J \in SUBSET (1..Len(seq)) : Cardinality(J) <= n}}

(* the items a caller passes to remove and collapse_nested; both only test *)
(* membership in the list, so one order of each list is enough             *)
RemovePool ==
    IF kind = "source" THEN <<"s1", "s3">>
    ELSE CASE world = "tree" -> <<"c1", "k1">>
           [] world = "chain" -> <<"d0">>
           [] OTHER -> <<"x", "y">>

RemoveLists == SubLists(RemovePool, MaxItems)

(* the max_nestedness values collapse_nested is called with                *)
MaxPool == IF world = "chain" THEN {MaxNestedness} ELSE {1, MaxNestedness}

(* intake.cat, the catalog a CatSelector shows when it is given none       *)
DefaultCat ==
    CASE world = "tree" -> "c1"
      [] world = "chain" -> "d0"
      [] OTHER -> "x"

(* the values a user picks from: all that are shown, or, with the long     *)
(* chain of catalogs, the first and the last shown                         *)
SelectPool ==
    LET vals == Values(options)
        once == Pick(vals, {i \in 1..Len(vals) : \A j \in 1..(i - 1) : vals[j] # vals[i]})
    IN  IF world = "chain" /\ Len(once) > 1 THEN <<once[1], once[Len(once)]>> ELSE once

(* the selections a user can make in the widget: shown values, in the      *)
(* order of the options, no value twice                                    *)
Selections == SubLists(SelectPool, MaxSel)

(* whether param calls the watchers for an equal non-empty value           *)
FireChoices == IF value = << >> THEN {TRUE} ELSE BOOLEAN

----------------------------------------------------------------------------
(* The state machine.                                                      *)

Start == [options |-> << >>, value |-> << >>, disabled |-> FALSE,
          called |-> << >>, err |-> "none"]

Cur == [options |-> options, value |-> value, disabled |-> disabled,
        called |-> << >>, err |-> "none"]

(* the last operation that changed the widget                              *)
Changed(opts, val, op) == IF opts # options \/ val # value THEN op ELSE last

Fixed == UNCHANGED <<kind, world, cat, has_callback>>

Built(w, op) ==
    /\ options = w.options
    /\ value = w.value
    /\ disabled = w.disabled
    /\ called = w.called
    /\ err = w.err
    /\ last = op

(* CatSelector.__init__ (cats given, or None for intake.cat) and           *)
(* SourceSelector.__init__ (sources, else cats, else nothing)              *)
Init ==
    /\ kind \in {"cat", "source"}
    /\ world \in {"tree", "chain", "free"}
    /\ kind = "source" => world = "tree"
    /\ cat \in {[o \in Objects |-> IF o \in FreeCats THEN g[o] ELSE ParentOf(o)] :
                  g \in IF world = "free" THEN [FreeCats -> FreeCats \cup {None}]
                        ELSE {[o \in FreeCats |-> None]}}
    /\ has_callback \in BOOLEAN
    /\ watching \in BOOLEAN
    /\ world = "chain" => has_callback /\ watching
    /\ (kind = "cat" /\ world # "chain") => ~has_callback
    /\ iters = 0
    /\ \/ /\ kind = "cat"
          /\ \E cats \in Lists(ItemPool, MaxItems) \cup {<<DefaultCat>>} :
                Built(SetOptions(Start, TRUE, cats, TRUE), "init")
       \/ /\ kind = "source"
          /\ \/ \E sources \in Lists(ItemPool, MaxItems) :
                   Built(SetOptions(Start, TRUE, sources, TRUE), "init")
             \/ \E cats \in Lists(TreeTop, MaxItems) :
                   Built(SetOptions(Start, TRUE, CatSources(CoerceToList(TRUE, cats)), TRUE), "init")
             \/ Built(Start, "init")

Commit(w, op) ==
    /\ options' = w.options
    /\ value' = w.value
    /\ disabled' = w.disabled
    /\ called' = w.called
    /\ err' = w.err
    /\ iters' = 0
    /\ last' = Changed(w.options, w.value, op)
    /\ UNCHANGED watching
    /\ Fixed

(* CatSelector.setup / SourceSelector.setup                                *)
Setup ==
    /\ ~watching
    /\ watching' = TRUE
    /\ disabled' = FALSE
    /\ called' = << >>
    /\ err' = "none"
    /\ iters' = 0
    /\ UNCHANGED <<options, value, last>>
    /\ Fixed

(* selector.options = new                                                  *)
OptionsStep(isList, new, fire) == Commit(SetOptions(Cur, isList, new, fire), "options")

AssignOptions ==
    \E fire \in FireChoices :
        \/ \E new \in Lists(ItemPool, MaxItems) : OptionsStep(TRUE, new, fire)
        \/ \E new \in ItemPool : OptionsStep(FALSE, new, fire)

(* selector.items = items: None is ignored, anything else goes to the      *)
(* options setter                                                          *)
AssignItems ==
    \/ \E fire \in FireChoices, items \in ItemPool : OptionsStep(FALSE, items, fire)
    \/ Commit(Cur, "items")

(* selector.add(items)                                                     *)
AddStep(isList, items, fire) == Commit(AddItems(Cur, isList, items, fire), "add")

Add ==
    \E fire \in FireChoices :
        \/ \E items \in Lists(ItemPool, MaxItems) : AddStep(TRUE, items, fire)
        \/ \E items \in ItemPool : AddStep(FALSE, items, fire)

(* selector.remove(items)                                                  *)
RemoveStep(isList, items) ==
    Commit([Cur EXCEPT !.options = RemoveItems(@, CoerceToList(isList, items))], "remove")

Remove ==
    \/ \E items \in RemoveLists : RemoveStep(TRUE, items)
    \/ \E items \in Range(RemovePool) : RemoveStep(FALSE, items)

(* selector.selected = new: a name, an object (shown or not) or a list of  *)
(* shown objects                                                           *)
AssignSelected ==
    \E fire \in FireChoices :
        \/ \E new \in {Name(o) : o \in ItemPool} \cup Range(Labels(options)) :
              Commit(SetSelectedTo(Cur, TRUE, FALSE, new, fire), "select")
        \/ \E new \in Range(SelectPool) \cup ItemPool :
              Commit(SetSelectedTo(Cur, FALSE, FALSE, new, fire), "select")
        \/ \E new \in Selections :
              Commit(SetSelectedTo(Cur, FALSE, TRUE, new, fire), "select")

(* the user changes the selection in the widget                            *)
UserSelect ==
    \E fire \in FireChoices, sel \in Selections :
        Commit(AssignValue(Cur, sel, fire), "select")

(* CatSelector.remove_selected, also the remove button's watcher           *)
RemoveSelected ==
    /\ kind = "cat"
    /\ LET c == CollapseNested(options, value, MaxNestedness)
           opts == RemoveItems(c.options, value)
       IN  /\ options' = opts
           /\ iters' = c.iters
           /\ last' = Changed(opts, value, "remove_selected")
    /\ called' = << >>
    /\ err' = "none"
    /\ UNCHANGED <<value, disabled, watching>>
    /\ Fixed

(* CatSelector.collapse_nested(cats, max_nestedness)                       *)
CollapseStep(cats, m) ==
    /\ kind = "cat"
    /\ LET c == CollapseNested(options, cats, m)
       IN  /\ options' = c.options
           /\ iters' = c.iters
           /\ last' = Changed(c.options, value, "collapse_nested")
    /\ called' = << >>
    /\ err' = "none"
    /\ UNCHANGED <<value, disabled, watching>>
    /\ Fixed

CollapseNestedCall ==
    \E cats \in RemoveLists, m \in MaxPool : CollapseStep(cats, m)

(* SourceSelector.cats = cats                                              *)
CatsStep(isList, cats, fire) ==
    /\ kind = "source"
    /\ Commit(SetOptions(Cur, TRUE, CatSources(CoerceToList(isList, cats)), fire), "options")

AssignCats ==
    \E fire \in FireChoices :
        \/ \E cats \in Lists(TreeTop, MaxItems) : CatsStep(TRUE, cats, fire)
        \/ \E cats \in TreeTop : CatsStep(FALSE, cats, fire)

Next ==
    \/ Setup
    \/ AssignOptions
    \/ AssignItems
    \/ Add
    \/ Remove
    \/ AssignSelected
    \/ UserSelect
    \/ RemoveSelected
    \/ CollapseNestedCall
    \/ AssignCats

Spec == Init /\ [][Next]_vars

----------------------------------------------------------------------------
(* Vocabulary of the properties.                                           *)

HasOption(opts, o) == \E i \in 1..Len(opts) : opts[i] = o

ShownValues(opts) == {opts[i].value : i \in 1..Len(opts)}

(* place of the option labelled l                                          *)
Place(opts, l) == CHOOSE i \in 1..Len(opts) : opts[i].label = l

(* every option of post is an option of pre, in the same relative order    *)
KeepsOrder(pre, post) ==
    /\ \A j \in 1..Len(post) : HasOption(pre, post[j])
    /\ \A i, j \in 1..Len(post) :
          i < j => Place(pre, post[i].label) < Place(pre, post[j].label)

(* the nested catalogs of a catalog: its entries of container 'catalog'    *)
NestedCatalogs(c) ==
    {Entries(c)[i].obj : i \in {j \in 1..Len(Entries(c)) : Entries(c)[j].container = "catalog"}}

----------------------------------------------------------------------------
----------------------------------------------------------------------------
(* one entry per item of l, labelled by its name, in the order of l, and   *)
(* the first item selected                                                 *)
OnePerItem(post, val, l) ==
    /\ post = [i \in 1..Len(l) |-> Opt(Name(l[i]), l[i])]
    /\ val = IF l = << >> THEN << >> ELSE <<l[1]>>

OnePerName(l) ==
    LET firsts == SelectSeq([i \in 1..Len(l) |-> i],
                            LAMBDA i : \A j \in 1..(i - 1) : Name(l[j]) # Name(l[i]))
        lastOf(nm) == l[CHOOSE i \in 1..Len(l) :
                          Name(l[i]) = nm /\ \A j \in (i + 1)..Len(l) : Name(l[j]) # nm]
    IN  [i \in 1..Len(firsts) |-> Opt(Name(l[firsts[i]]), lastOf(Name(l[firsts[i]])))]

(* the options and selection an assignment of the items l leaves           *)
OptionsPost(pre_value, post, val, l) ==
    LET plain == SelectSeq(post, LAMBDA o : ~InSeq(right, o.label))
        nestedAt == {i \in 1..Len(post) : InSeq(right, post[i].label)}
    IN  /\ plain = OnePerName(l)
        /\ val = IF post = << >> THEN << >> ELSE <<post[1].value>>
        /\ nestedAt # {} => (kind = "cat" /\ watching)
        /\ nestedAt = {} \/ nestedAt = 2..(1 + Cardinality(nestedAt))
        /\ \A i \in nestedAt :
              /\ post[i].value \in NestedCatalogs(post[1].value)
              /\ post[i].label = <<right, space>> \o Name(post[i].value)
        /\ (kind = "cat" /\ watching /\ val # pre_value /\ post # << >>) =>
              NestedCatalogs(post[1].value) = {post[i].value : i \in nestedAt}

----------------------------------------------------------------------------
(* what add(items) is to leave of the options pre                          *)
AddPost(pre, post, items) ==
    /\ \A i \in 1..Len(pre) : HasOption(post, pre[i])
    /\ \A i \in 1..Len(items) : items[i] \in ShownValues(post)
    /\ \A i \in 1..Len(items) :
          (\E j \in 1..Len(pre) : pre[j].label = Name(items[i]) /\ pre[j].value # items[i]) =>
             \E n \in 0..Len(pre) :
                /\ HasOption(post, Opt(Name(items[i]) \o <<"_">> \o Str(n), items[i]))
                /\ ~InSeq(Name(items[i]) \o <<"_">> \o Str(n), Labels(pre))
                /\ \A k \in 0..(n - 1) : InSeq(Name(items[i]) \o <<"_">> \o Str(k), Labels(pre))

(* C3: after add(items) returns, every option present before is still      *)
(* present with the same label and value, every item passed is among the   *)
(* items, and an item whose name is the label of a different item is       *)
(* stored under name_N, N the smallest number with name_N not yet a label. *)
C3_AddKeepsAndDedups ==
    [][(last' = "add" /\ err' = "none") =>
          \A fire \in BOOLEAN :
             /\ \A items \in Lists(ItemPool, MaxItems) :
                   AddStep(TRUE, items, fire) => AddPost(options, options', items)
             /\ \A items \in ItemPool :
                   AddStep(FALSE, items, fire) => AddPost(options, options', <<items>>)]_vars

----------------------------------------------------------------------------
(* what remove(items) is to leave of the options pre                       *)
RemovePost(pre, post, items) ==
    /\ \A j \in 1..Len(post) : ~InSeq(post[j].value, items)
    /\ \A i \in 1..Len(pre) : ~InSeq(pre[i].value, items) => HasOption(post, pre[i])
    /\ KeepsOrder(pre, post)
    /\ (\A i \in 1..Len(pre) : ~InSeq(pre[i].value, items)) => post = pre

(* C4: remove(items) leaves no option whose value is one of the items,     *)
(* keeps every other option with its label, its value and its relative     *)
(* order, and changes nothing when none of the items is among the options. *)
C4_RemoveOnlyItems ==
    [][(last' = "remove" \/ UNCHANGED <<options, value>>) =>
          /\ \A items \in RemoveLists :
                RemoveStep(TRUE, items) => RemovePost(options, options', items)
          /\ \A items \in Range(RemovePool) :
                RemoveStep(FALSE, items) => RemovePost(options, options', <<items>>)]_vars

(* remove took a nested catalog out from between its parent and its        *)
(* sibling, which stayed                                                   *)
C4_Witness ==
    /\ last = "remove"
    /\ options = <<Opt(<<"a">>, "c1"), Opt(<<right, space, "m">>, "k2")>>

----------------------------------------------------------------------------
RECURSIVE Ancestors(_, _)
(* the ancestors of a catalog: its parent, the parent's parent, ..., n at  *)
(* most                                                                    *)
Ancestors(c, n) ==
    IF n = 0 \/ cat[c] = None THEN {}
    ELSE {cat[c]} \cup Ancestors(cat[c], n - 1)

RECURSIVE ShownBelow(_, _, _)
(* the shown catalogs within n parent links of cats, every link through a  *)
(* catalog of cats or a shown one                                          *)
ShownBelow(opts, cats, n) ==
    IF n = 0 THEN {}
    ELSE LET above == ShownBelow(opts, cats, n - 1)
         IN  {v \in ShownValues(opts) : cat[v] # None /\ cat[v] \in (Range(cats) \cup above)}

----------------------------------------------------------------------------
(* what expand_nested is to make of the options pre for the catalog got    *)
ExpandPost(pre, post, got) ==
    LET children == GetChildren(got)
        at == CHOOSE i \in 1..Len(post) : post[i].value = got /\ \A j \in 1..(i - 1) : post[j].value # got
    IN  /\ \E i \in 1..Len(post) : post[i].value = got
        /\ at + Len(children) <= Len(post)
        /\ \A i \in 1..Len(children) :
              /\ post[at + i].value = children[i]
              /\ InSeq(right, post[at + i].label)
              /\ Len(post[at + i].label) > Len(Name(children[i]))
              /\ SubSeq(post[at + i].label,
                        Len(post[at + i].label) - Len(Name(children[i])),
                        Len(post[at + i].label)) = <<space>> \o Name(children[i])
        /\ KeepsOrder(post, pre)

(* C6: when the selection of a CatSelector changes to a non-empty list,    *)
(* the nested catalogs of the first selected catalog stand right after it, *)
(* in entry order, each labelled with a tree prefix and its name, and      *)
(* every option present before keeps its label, value and relative order;  *)
(* when it changes to the empty list the options are unchanged.            *)
C6_ExpandOnSelect ==
    [][(kind = "cat" /\ watching /\ last' = "select" /\ value' # value /\ err' = "none") =>
          IF value' = << >> THEN options' = options
          ELSE ExpandPost(options, options', value'[1])]_vars

----------------------------------------------------------------------------
(* the entries of a catalog that are not catalogs                          *)
SourcesOf(c) ==
    {Entries(c)[i].obj : i \in {j \in 1..Len(Entries(c)) : Entries(c)[j].container # "catalog"}}

EntryPlace(c, o) == CHOOSE i \in 1..Len(Entries(c)) : Entries(c)[i].obj = o

(* the options hold every source of cats, in catalog then entry order      *)
CatsPost(post, cats) ==
    /\ ShownValues(post) = UNION {SourcesOf(cats[i]) : i \in 1..Len(cats)}
    /\ \A i, j \in 1..Len(post) :
          i < j =>
             \E a, b \in 1..Len(cats) :
                /\ post[i].value \in SourcesOf(cats[a])
                /\ post[j].value \in SourcesOf(cats[b])
                /\ \/ a < b
                   \/ a = b /\ EntryPlace(cats[a], post[i].value) < EntryPlace(cats[a], post[j].value)

(* C7: setting cats on a SourceSelector makes its items exactly the        *)
(* entries of the given catalogs that are not catalogs, every one of them, *)
(* in catalog order then entry order.                                      *)
C7_CatsSetsSources ==
    [][kind = "source" =>
          \A cats \in Lists(TreeTop, MaxItems), fire \in BOOLEAN :
             CatsStep(TRUE, cats, fire) => CatsPost(options', cats)]_vars

----------------------------------------------------------------------------
(* one remove by value: what is left is in the old order, and an option is *)
(* gone only together with every option of the same value                  *)
OneRemove(pre, post) ==
    /\ KeepsOrder(pre, post)
    /\ \A i \in 1..Len(pre) :
          HasOption(post, pre[i]) \/ pre[i].value \notin ShownValues(post)

(* C8: the loop of collapse_nested(cats, max_nestedness) runs at most      *)
(* max_nestedness times (10 in remove_selected), for any options and any   *)
(* parent relation, cyclic ones included, and the call then does one       *)
(* remove.                                                                 *)
C8_CollapseBounded ==
    [][iters' > 0 =>
          /\ \A cats \in RemoveLists, m \in MaxPool :
                CollapseStep(cats, m) => (iters' <= m /\ OneRemove(options, options'))
          /\ iters' <= MaxNestedness]_vars

(* a collapse_nested that used up all its iterations and left a nested     *)
(* catalog behind                                                          *)
C8_Witness ==
    /\ last = "collapse_nested"
    /\ iters = MaxNestedness
    /\ \E i \in 1..Len(options) : cat[options[i].value] # None

----------------------------------------------------------------------------
(* C9: every selected object is the value of some current option.          *)
C9_SelectedAmongItems == \A i \in 1..Len(value) : value[i] \in ShownValues(options)

----------------------------------------------------------------------------
(* every nested catalog of c is shown under a tree prefix                  *)
NestedShown(opts, c) ==
    /\ NestedCatalogs(c) # {}
    /\ \A n \in NestedCatalogs(c) :
          \E i \in 1..Len(opts) : opts[i].value = n /\ InSeq(right, opts[i].label)

(* C10: selecting a catalog whose nested catalogs are all shown already    *)
(* leaves the options as they are.                                         *)
C10_ExpandIdempotent ==
    [][(kind = "cat" /\ watching /\ last' = "select" /\ err' = "none"
        /\ value' # << >> /\ value' # value /\ NestedShown(options, value'[1])) =>
          options' = options]_vars

====
